---- MODULE Spec2Model ----
(***************************************************************************)
(* Model of the title-downgrader backend (src/backend/main.py): the quota  *)
(* ledger (free-trial rows and generation-token rows in the shared store), *)
(* and the /api/downgrade request handler that authorizes, consumes one    *)
(* unit of allowance, calls the LLM and parses its reply.                  *)
(*                                                                         *)
(* Every request handler runs in its own database session.  A handler is   *)
(* cut into steps at its awaits on the store and on the LLM: the code      *)
(* between two awaits runs without interruption, the awaits of different   *)
(* requests (of one server or of several servers on the same store)        *)
(* interleave freely.                                                      *)
(***************************************************************************)
EXTENDS Integers, Sequences, FiniteSets, TLC

\* ---------------------------------------------------------------- bounds

\* Number of /api/downgrade requests of a run with arbitrary request bodies.
NumRequests == 2
\* Number of callers of a run in which every caller uses the same ledger.
NumCallers == 3
\* Largest configured FREE_TRIAL_LIMIT of a run.
MaxLimit == 2
\* Largest number of generations a purchased token is granted.
MaxGenerations == 2
\* Longest downgraded string of the pairs given to the response parser.
MaxStrLen == 2

\* ------------------------------------------------------- program constants

\* main.py:261  hype = max(1, min(10, parsed["hype_score"]))
HypeMin == 1
HypeMax == 10

\* ---------------------------------------------------------------- inputs

Max(a, b) == IF a >= b THEN a ELSE b
Min(a, b) == IF a <= b THEN a ELSE b

\* Request handlers of a run.
Requests == 1..Max(NumRequests, NumCallers)

\* Python's None for an Optional[str] field.
None == "<None>"

\* Whitespace that str.strip() removes and \s matches.
Whitespace == {" ", "\t", "\n"}

\* Titles a request may carry: "", " \t", " a ".
Titles == {<<>>, <<" ", "\t">>, <<" ", "a", " ">>}

\* Token strings that have a GenerationToken row in the store.
TokenStrings == {"tokA"}
\* Token field of a request: absent, empty, a stored token, an unknown one.
TokenInputs == {None, "", "tokA", "bogus"}

\* Device identifiers seen by the service.
DeviceIds == {"dev1"}
\* device_id field of a request: absent, or a device.
DeviceInputs == {None} \cup DeviceIds

\* Every request body.
AllInputs == [title : Titles, token : TokenInputs, device_id : DeviceInputs]

\* Bodies of the callers that redeem a token: a title to rewrite and a token,
\* stored or unknown.
TokenCallInputs ==
    {q \in AllInputs : q.title = <<" ", "a", " ">> /\ q.device_id = None
                       /\ q.token \in {"tokA", "bogus"}}

\* Bodies of the callers on the free trial: a title to rewrite and a device.
TrialCallInputs ==
    {q \in AllInputs : q.title = <<" ", "a", " ">> /\ q.token = None
                       /\ q.device_id \in DeviceIds}

\* ----------------------------------------------------------------- state

VARIABLES
    limit,      \* settings.FREE_TRIAL_LIMIT
    tokens,     \* store: token string -> GenerationToken row
    trial,      \* store: device_id -> uses_count, for the devices with a row
    pc,         \* per request: where its handler is
    req,        \* per request: the DowngradeRequest body
    snap,       \* per request: the ORM object its session holds, to be flushed
    raw,        \* per request: the text call_llm returned
    resp,       \* per request: the HTTP response
    auth,       \* per request: result of its authorize-and-consume call
    llm_calls,  \* per request: number of LLM calls it issued
    status      \* last TrialStatusResponse served

vars == <<limit, tokens, trial, pc, req, snap, raw, resp, auth, llm_calls, status>>

Terminal == {"Completed", "Rejected", "Failed"}

NoRequest == [title |-> <<>>, token |-> None, device_id |-> None]
NoSnap == [op |-> "none", value |-> 0]
NoResp ==
    [code |-> 0, detail |-> "", downgraded |-> <<>>, hype_score |-> 0,
     original |-> <<>>]
NoStatus == [device_id |-> None, has_free_trial |-> FALSE, uses_remaining |-> 0]

\* ------------------------------------------------------------ pure helpers

\* Python truthiness of an Optional[str]: None and "" are falsy.
Truthy(s) == s # None /\ s # ""

RECURSIVE lstrip(_)
lstrip(s) == IF s # <<>> /\ Head(s) \in Whitespace THEN lstrip(Tail(s)) ELSE s

RECURSIVE rstrip(_)
rstrip(s) ==
    IF s # <<>> /\ s[Len(s)] \in Whitespace THEN rstrip(SubSeq(s, 1, Len(s) - 1)) ELSE s

\* str.strip()
strip(s) == rstrip(lstrip(s))

\* The title check without the strip: only the empty title is blank.
title_is_blank_NoStrip(title) == title = <<>>

\* main.py:231  not request.title or not request.title.strip()
title_is_blank(title) == title = <<>> \/ strip(title) = <<>>

\* The clamp without its upper end.
clamp_hype_NoUpper(score) == Max(HypeMin, score)

\* hype = max(1, min(10, parsed["hype_score"]))
clamp_hype(score) == Max(HypeMin, Min(HypeMax, score))

\* The two branches in the other order: the device before the token.
auth_path_DeviceFirst(request) ==
    IF Truthy(request.device_id) THEN "trial"
    ELSE IF Truthy(request.token) THEN "token"
    ELSE "none"

\* The branches without the final else: a request with no token goes to the
\* free-trial check whether or not it names a device.
auth_path_NoElse(request) ==
    IF Truthy(request.token) THEN "token" ELSE "trial"

\* Which authorization path downgrade_title takes: `if request.token:` first,
\* `elif request.device_id:` second, else neither.
auth_path(request) ==
    IF Truthy(request.token) THEN "token"
    ELSE IF Truthy(request.device_id) THEN "trial"
    ELSE "none"

\* GenerationToken.use_generation(): consumes one generation of the loaded
\* object if one remains, and says whether it did.
use_generation(obj) ==
    IF obj.generations_remaining > 0
    THEN [ok |-> TRUE,
          obj |-> [obj EXCEPT !.generations_remaining = @ - 1]]
    ELSE [ok |-> FALSE, obj |-> obj]

NoTokenRow == [generations_total |-> 0, generations_remaining |-> 0]

\* The check without the result of use_generation(): any stored token passes.
token_allows_AnyRow(token_str, found, obj) == Truthy(token_str) /\ found

\* check_and_use_token up to its commit: the token string is non-empty, the
\* SELECT found a row, and use_generation() accepted.
token_allows(token_str, found, obj) ==
    Truthy(token_str) /\ found /\ use_generation(obj).ok

\* The comparison with <= for <: one use more than the limit.
free_trial_decision_OffByOne(found, uses_count) ==
    IF ~found THEN "insert"
    ELSE IF uses_count <= limit THEN "update"
    ELSE "deny"

\* check_and_use_free_trial after its SELECT: create the row, increment it,
\* or refuse.
free_trial_decision(found, uses_count) ==
    IF ~found THEN "insert"
    ELSE IF uses_count < limit THEN "update"
    ELSE "deny"

\* The remaining uses without the max(0, ...).
get_trial_status_NoFloor(found, uses_count) ==
    IF ~found
    THEN [has_free_trial |-> TRUE, uses_remaining |-> limit]
    ELSE [has_free_trial |-> limit - uses_count > 0,
          uses_remaining |-> limit - uses_count]

\* get_trial_status on the row its SELECT returned.
get_trial_status(found, uses_count) ==
    IF ~found
    THEN [has_free_trial |-> TRUE, uses_remaining |-> limit]
    ELSE LET remaining == Max(0, limit - uses_count)
         IN  [has_free_trial |-> remaining > 0, uses_remaining |-> remaining]

\* ------------------------------------------------------- response parser
\* A text is a sequence of one-character strings.

Digits == <<"0", "1", "2", "3", "4", "5", "6", "7", "8", "9">>
IsDigit(c) == \E d \in 1..Len(Digits) : Digits[d] = c
DigitValue(c) == (CHOOSE d \in 1..Len(Digits) : Digits[d] = c) - 1

Quote == "\""
Backslash == "\\"
\* The backtick, which a string of this language cannot hold.
Backtick == "<backtick>"
\* The marker of a fenced code block and its optional tag.
Fence == <<Backtick, Backtick, Backtick>>
JsonTag == <<"j", "s", "o", "n">>
\* The two keys of the object the prompt asks for.
KeyDowngraded == <<"d", "o", "w", "n", "g", "r", "a", "d", "e", "d">>
KeyHypeScore == <<"h", "y", "p", "e", "_", "s", "c", "o", "r", "e">>

\* s has p at position i.
StartsWithAt(s, i, p) ==
    i >= 1 /\ i + Len(p) - 1 <= Len(s) /\ SubSeq(s, i, i + Len(p) - 1) = p

\* s[n:]
Drop(s, n) == SubSeq(s, n + 1, Len(s))

\* The opening fence pattern without the optional tag.
strip_opening_fence_NoTag(text) ==
    IF StartsWithAt(text, 1, Fence) THEN lstrip(Drop(text, Len(Fence)))
    ELSE text

\* re.sub of the opening fence (main.py:146): three backticks at the start,
\* the tag json if it follows at once, and the whitespace after them.
strip_opening_fence(text) ==
    IF StartsWithAt(text, 1, Fence)
    THEN LET rest == Drop(text, Len(Fence))
         IN  lstrip(IF StartsWithAt(rest, 1, JsonTag)
                    THEN Drop(rest, Len(JsonTag)) ELSE rest)
    ELSE text

\* re.sub of the closing fence (main.py:147): three backticks at the end
\* and the whitespace before them.  (The text does not end in whitespace.)
strip_closing_fence(text) ==
    IF StartsWithAt(text, Len(text) - Len(Fence) + 1, Fence)
    THEN rstrip(SubSeq(text, 1, Len(text) - Len(Fence)))
    ELSE text

\* The value json.loads returns: None, a str, an int, a bool, a list or a
\* dict, as a record of one shape.  A dict keeps its members in text order.
JNull == [t |-> "null", s |-> <<>>, n |-> 0, items |-> <<>>, keys |-> <<>>]
JStr(s) == [JNull EXCEPT !.t = "str", !.s = s]
JInt(n) == [JNull EXCEPT !.t = "int", !.n = n]
JBool(b) == [JNull EXCEPT !.t = "bool", !.n = IF b THEN 1 ELSE 0]
JList(items) == [JNull EXCEPT !.t = "list", !.items = items]
JDict(keys, items) == [JNull EXCEPT !.t = "dict", !.keys = keys, !.items = items]

\* Result of scanning one JSON value: the value and the position after it.
NoScan == [ok |-> FALSE, val |-> JNull, next |-> 0]
Scanned(val, next) == [ok |-> TRUE, val |-> val, next |-> next]

RECURSIVE skip_ws(_, _)
skip_ws(s, i) ==
    IF i <= Len(s) /\ s[i] \in Whitespace THEN skip_ws(s, i + 1) ELSE i

\* json.decoder.py_scanstring from the character after the opening quote:
\* the escapes of quote, backslash, slash, n and t; no raw control character.  (The texts of the
\* model hold no other escape.)
RECURSIVE scan_string(_, _, _)
scan_string(s, i, acc) ==
    IF i > Len(s) THEN NoScan
    ELSE IF s[i] = Quote THEN Scanned(JStr(acc), i + 1)
    ELSE IF s[i] = Backslash
    THEN IF i + 1 > Len(s) THEN NoScan
         ELSE IF s[i + 1] \in {Quote, Backslash, "/"}
         THEN scan_string(s, i + 2, Append(acc, s[i + 1]))
         ELSE IF s[i + 1] = "n" THEN scan_string(s, i + 2, Append(acc, "\n"))
         ELSE IF s[i + 1] = "t" THEN scan_string(s, i + 2, Append(acc, "\t"))
         ELSE NoScan
    ELSE IF s[i] \in {"\n", "\t"} THEN NoScan
    ELSE scan_string(s, i + 1, Append(acc, s[i]))

\* The run of digits at i and its value.
RECURSIVE scan_digits(_, _, _)
scan_digits(s, i, acc) ==
    IF i <= Len(s) /\ IsDigit(s[i])
    THEN scan_digits(s, i + 1, 10 * acc + DigitValue(s[i]))
    ELSE [n |-> acc, next |-> i]

\* json.scanner NUMBER_RE, integer part: a minus sign if any, then 0 or a
\* run of digits that does not start with 0.  (The texts of the
\* model hold no fraction and no exponent.)
scan_number(s, i) ==
    LET neg == s[i] = "-"
        j == IF neg THEN i + 1 ELSE i
    IN  IF j > Len(s) \/ ~IsDigit(s[j]) THEN NoScan
        ELSE LET d == IF s[j] = "0" THEN [n |-> 0, next |-> j + 1]
                      ELSE scan_digits(s, j, 0)
             IN  Scanned(JInt(IF neg THEN 0 - d.n ELSE d.n), d.next)

\* json.scanner.py_make_scanner._scan_once, JSONObject and JSONArray.
RECURSIVE scan_value(_, _)
RECURSIVE scan_members(_, _, _, _)
RECURSIVE scan_elements(_, _, _)

scan_value(s, i) ==
    IF i > Len(s) THEN NoScan
    ELSE IF s[i] = Quote THEN scan_string(s, i + 1, <<>>)
    ELSE IF s[i] = "{"
    THEN LET j == skip_ws(s, i + 1)
         IN  IF j <= Len(s) /\ s[j] = "}" THEN Scanned(JDict(<<>>, <<>>), j + 1)
             ELSE scan_members(s, j, <<>>, <<>>)
    ELSE IF s[i] = "["
    THEN LET j == skip_ws(s, i + 1)
         IN  IF j <= Len(s) /\ s[j] = "]" THEN Scanned(JList(<<>>), j + 1)
             ELSE scan_elements(s, j, <<>>)
    ELSE IF s[i] = "-" \/ IsDigit(s[i]) THEN scan_number(s, i)
    ELSE IF StartsWithAt(s, i, <<"n", "u", "l", "l">>) THEN Scanned(JNull, i + 4)
    ELSE IF StartsWithAt(s, i, <<"t", "r", "u", "e">>)
    THEN Scanned(JBool(TRUE), i + 4)
    ELSE IF StartsWithAt(s, i, <<"f", "a", "l", "s", "e">>)
    THEN Scanned(JBool(FALSE), i + 5)
    ELSE NoScan

scan_members(s, i, keys, items) ==
    IF i > Len(s) \/ s[i] # Quote THEN NoScan
    ELSE LET k == scan_string(s, i + 1, <<>>)
             c == skip_ws(s, k.next)
             v == scan_value(s, skip_ws(s, c + 1))
             e == skip_ws(s, v.next)
             keys2 == Append(keys, k.val.s)
             items2 == Append(items, v.val)
         IN  IF ~k.ok \/ c > Len(s) THEN NoScan
             ELSE IF s[c] # ":" \/ ~v.ok \/ e > Len(s) THEN NoScan
             ELSE IF s[e] = "}" THEN Scanned(JDict(keys2, items2), e + 1)
             ELSE IF s[e] = ","
             THEN scan_members(s, skip_ws(s, e + 1), keys2, items2)
             ELSE NoScan

scan_elements(s, i, items) ==
    LET v == scan_value(s, i)
        e == skip_ws(s, v.next)
        items2 == Append(items, v.val)
    IN  IF ~v.ok \/ e > Len(s) THEN NoScan
        ELSE IF s[e] = "]" THEN Scanned(JList(items2), e + 1)
        ELSE IF s[e] = "," THEN scan_elements(s, skip_ws(s, e + 1), items2)
        ELSE NoScan

\* json.loads(s): one value with whitespace around it and nothing else, or
\* a JSONDecodeError.
json_loads(s) ==
    LET r == scan_value(s, skip_ws(s, 1))
    IN  IF r.ok /\ skip_ws(s, r.next) = Len(s) + 1
        THEN [ok |-> TRUE, val |-> r.val]
        ELSE [ok |-> FALSE, val |-> JNull]

\* p occurs in s.
IsSubstring(p, s) == \E i \in 1..(Len(s) - Len(p) + 1) : StartsWithAt(s, i, p)

\* The values Python's in-test accepts on its right: a number, None and a bool
\* raise TypeError.
Iterable(data) == data.t \in {"dict", "str", "list"}

\* key in data: a key of a dict, a substring of a str, an element of a list.
contains(data, key) ==
    CASE data.t = "dict" -> \E i \in 1..Len(data.keys) : data.keys[i] = key
      [] data.t = "str" -> IsSubstring(key, data.s)
      [] data.t = "list" -> \E i \in 1..Len(data.items) : data.items[i] = JStr(key)

\* data[key] of a dict that has the key: of members with the same key the
\* last one counts.
dict_get(data, key) ==
    LET at == {i \in 1..Len(data.keys) : data.keys[i] = key}
    IN  data.items[CHOOSE i \in at : \A j \in at : j <= i]

\* "key" with its quotes.
QuotedKey(key) == <<Quote>> \o key \o <<Quote>>

\* Where  "key"\s*:\s*  matched at i ends, or 0 when it does not match.
after_key(s, i, key) ==
    IF StartsWithAt(s, i, QuotedKey(key))
    THEN LET c == skip_ws(s, i + Len(key) + 2)
         IN  IF c <= Len(s) /\ s[c] = ":" THEN skip_ws(s, c + 1) ELSE 0
    ELSE 0

\* The first quote at or after i, or 0.
RECURSIVE next_quote(_, _)
next_quote(s, i) ==
    IF i > Len(s) THEN 0
    ELSE IF s[i] = Quote THEN i
    ELSE next_quote(s, i + 1)

\* re.search of the downgraded pattern (main.py:157) from i on: the quoted
\* key, a colon with optional whitespace around it, an opening quote, the
\* group, a closing quote.  The group starts with a greedy run of
\* characters that are not a quote; that run ends at the next quote, a
\* backslash before it included, and the closing quote of the pattern
\* matches there, so the escaped-pair alternative is never tried: group 1 is the text
\* between the opening quote and the next quote.
RECURSIVE search_downgraded(_, _)
search_downgraded(s, i) ==
    IF i > Len(s) THEN [found |-> FALSE, group |-> <<>>]
    ELSE LET v == after_key(s, i, KeyDowngraded)
             close == IF v # 0 /\ v <= Len(s) /\ s[v] = Quote
                      THEN next_quote(s, v + 1) ELSE 0
         IN  IF close # 0
             THEN [found |-> TRUE, group |-> SubSeq(s, v + 1, close - 1)]
             ELSE search_downgraded(s, i + 1)

\* re.search of the hype_score pattern (main.py:158) from i on: the quoted
\* key, a colon with optional whitespace around it, a run of digits; and
\* int() of the digits.
RECURSIVE search_hype_score(_, _)
search_hype_score(s, i) ==
    IF i > Len(s) THEN [found |-> FALSE, value |-> 0]
    ELSE LET v == after_key(s, i, KeyHypeScore)
         IN  IF v # 0 /\ v <= Len(s) /\ IsDigit(s[v])
             THEN [found |-> TRUE, value |-> scan_digits(s, v, 0).n]
             ELSE search_hype_score(s, i + 1)

\* str.replace of backslash-quote by quote (main.py:162)
RECURSIVE replace_escaped_quotes(_)
replace_escaped_quotes(s) ==
    IF s = <<>> THEN <<>>
    ELSE IF StartsWithAt(s, 1, <<Backslash, Quote>>)
    THEN <<Quote>> \o replace_escaped_quotes(Drop(s, 2))
    ELSE <<Head(s)>> \o replace_escaped_quotes(Tail(s))

\* parse_llm_response(text): what it returns (kind "ok" and the data), or
\* the exception it raises.  The two in-tests on a loaded value that is
\* not iterable raise TypeError, which `except json.JSONDecodeError` does
\* not catch.
parse_llm_response(text) ==
    LET body == strip(strip_closing_fence(strip_opening_fence(strip(text))))
        loaded == json_loads(body)
        down_match == search_downgraded(body, 1)
        score_match == search_hype_score(body, 1)
    IN  IF loaded.ok /\ ~Iterable(loaded.val)
        THEN [kind |-> "TypeError", data |-> JNull]
        ELSE IF /\ loaded.ok
                /\ contains(loaded.val, KeyDowngraded)
                /\ contains(loaded.val, KeyHypeScore)
        THEN [kind |-> "ok", data |-> loaded.val]
        ELSE IF down_match.found /\ score_match.found
        THEN [kind |-> "ok",
              data |-> JDict(<<KeyDowngraded, KeyHypeScore>>,
                             <<JStr(replace_escaped_quotes(down_match.group)),
                               JInt(score_match.value)>>)]
        ELSE [kind |-> "ValueError", data |-> JNull]

\* json.dumps of a str: the quote, the backslash and the control characters
\* are escaped.
RECURSIVE escape_string(_)
escape_string(s) ==
    IF s = <<>> THEN <<>>
    ELSE (CASE Head(s) = Quote -> <<Backslash, Quote>>
            [] Head(s) = Backslash -> <<Backslash, Backslash>>
            [] Head(s) = "\n" -> <<Backslash, "n">>
            [] Head(s) = "\t" -> <<Backslash, "t">>
            [] OTHER -> <<Head(s)>>) \o escape_string(Tail(s))

\* str(n) of an int n >= 0, and of any int.
RECURSIVE decimal(_)
decimal(n) ==
    IF n < 10 THEN <<Digits[n + 1]>>
    ELSE decimal(n \div 10) \o <<Digits[(n % 10) + 1]>>

int_text(n) == IF n < 0 THEN <<"-">> \o decimal(0 - n) ELSE decimal(n)

\* json.dumps({"downgraded": ..., "hype_score": ...}): the JSON encoding of
\* a pair, as the tests write it.
json_dumps(pair) ==
    <<"{">> \o QuotedKey(KeyDowngraded) \o <<":", " ", Quote>>
        \o escape_string(pair.downgraded) \o <<Quote, ",", " ">>
        \o QuotedKey(KeyHypeScore) \o <<":", " ">> \o int_text(pair.hype_score)
        \o <<"}">>

\* The text in a fenced code block, with the tag given (JsonTag or none).
Fenced(text, tag) == Fence \o tag \o <<"\n">> \o text \o <<"\n">> \o Fence

\* Raw hype scores the LLM may put in its reply.
RawScores == {0, 5, 15}
\* The text call_llm returns in the runs of the handler: the object the
\* prompt asks for, or text that is not JSON.
LLMReplies ==
    {json_dumps([downgraded |-> <<"a">>, hype_score |-> s]) : s \in RawScores}
        \cup {<<"n", "o", "t", " ", "j", "s", "o", "n">>}
\* No text yet.
NoReply == <<>>

\* The strings of at most n characters: a letter, the two characters JSON
\* escapes, and a line break.
PairChars == {"a", Quote, Backslash, "\n"}
Strings(n) == UNION {[1..k -> PairChars] : k \in 0..n}
\* The pairs of a downgraded string and an integer hype score.
Pairs == [downgraded : Strings(MaxStrLen), hype_score : RawScores \cup {0 - 3}]
\* The JSON encoding of each pair.
Encoding == [pair \in Pairs |-> json_dumps(pair)]

\* Replies that are not the encoding of a pair: valid JSON that is not an
\* object (5, null, true, [], ["downgraded", "hype_score"], "a", the string
\* "downgraded hype_score"), objects without one of the keys or with a
\* hype_score that is no number, an object with a trailing comma, an object
\* after a word, text that is not JSON, and the empty text.
OddTexts ==
    {<<"5">>, <<"n", "u", "l", "l">>, <<"t", "r", "u", "e">>, <<"[", "]">>,
     <<"[">> \o QuotedKey(KeyDowngraded) \o <<",", " ">>
         \o QuotedKey(KeyHypeScore) \o <<"]">>,
     <<Quote, "a", Quote>>,
     <<Quote>> \o KeyDowngraded \o <<" ">> \o KeyHypeScore \o <<Quote>>,
     <<"{">> \o QuotedKey(KeyDowngraded) \o <<":", " ", Quote, "a", Quote, "}">>,
     <<"{">> \o QuotedKey(KeyHypeScore) \o <<":", " ", "5", "}">>,
     <<"{">> \o QuotedKey(KeyDowngraded) \o <<":", " ", Quote, "a", Quote, ",", " ">>
         \o QuotedKey(KeyHypeScore) \o <<":", " ", Quote, "7", Quote, "}">>,
     <<"{">> \o QuotedKey(KeyDowngraded) \o <<":", " ", Quote, "a", Quote, ",", " ">>
         \o QuotedKey(KeyHypeScore) \o <<":", " ", "5", ",", "}">>,
     <<"o", "k", " ">> \o json_dumps([downgraded |-> <<"a">>, hype_score |-> 5]),
     <<"g", "a", "r", "b", "a", "g", "e">>,
     <<>>}

\* The texts given to the parser: each encoding bare, in a fenced block
\* tagged json and in an untagged one, and the odd texts.
ParserTexts ==
    {Encoding[pair] : pair \in Pairs}
        \cup {Fenced(Encoding[pair], JsonTag) : pair \in Pairs}
        \cup {Fenced(Encoding[pair], <<>>) : pair \in Pairs}
        \cup OddTexts

\* parse_llm_response on every reply of the model.
ParsedReply == [text \in LLMReplies \cup ParserTexts |-> parse_llm_response(text)]

\* ------------------------------------------------------------------ Init

Init ==
    /\ limit \in 0..MaxLimit
    /\ \E n \in 1..MaxGenerations :
          tokens = [t \in TokenStrings |->
                      [generations_total |-> n, generations_remaining |-> n]]
    /\ trial = <<>>
    /\ pc = [r \in Requests |-> "new"]
    /\ req = [r \in Requests |-> NoRequest]
    /\ snap = [r \in Requests |-> NoSnap]
    /\ raw = [r \in Requests |-> NoReply]
    /\ resp = [r \in Requests |-> NoResp]
    /\ auth = [r \in Requests |-> "none"]
    /\ llm_calls = [r \in Requests |-> 0]
    /\ status = NoStatus

\* --------------------------------------------------------------- actions

\* raise HTTPException(status_code=code, ...) out of the handler of r.
Respond(r, state, code, detail) ==
    /\ pc' = [pc EXCEPT ![r] = state]
    /\ resp' = [resp EXCEPT ![r] = [NoResp EXCEPT !.code = code,
                                                   !.detail = detail]]

\* A request arrives: the handler runs to its first await.  It rejects a
\* blank title, then picks the token path, the trial path, or rejects a
\* request with neither credential.
Receive(r, inputs) ==
    /\ pc[r] = "new"
    /\ \A q \in 1..(r - 1) : pc[q] # "new"
    /\ \E request \in inputs :
              /\ req' = [req EXCEPT ![r] = request]
              /\ IF title_is_blank(request.title)
                 THEN Respond(r, "Rejected", 400, "blank_title")
                 ELSE IF auth_path(request) = "token"
                 THEN /\ pc' = [pc EXCEPT ![r] = "AuthToken"]
                      /\ resp' = resp
                 ELSE IF auth_path(request) = "trial"
                 THEN /\ pc' = [pc EXCEPT ![r] = "AuthTrial"]
                      /\ resp' = resp
                 ELSE Respond(r, "Rejected", 400, "no_credentials")
    /\ UNCHANGED <<limit, tokens, trial, snap, raw, auth, llm_calls, status>>

\* The token path without the raise of the 402: a refused token goes on to
\* the generation.
TokenSelect_FallThrough(r) ==
    /\ pc[r] = "AuthToken"
    /\ LET t == req[r].token
           found == t \in DOMAIN tokens
           obj == IF found THEN tokens[t] ELSE NoTokenRow
       IN  IF token_allows(t, found, obj)
           THEN /\ pc' = [pc EXCEPT ![r] = "TokenCommit"]
                /\ snap' = [snap EXCEPT ![r] =
                      [op |-> "update",
                       value |-> use_generation(obj).obj.generations_remaining]]
                /\ UNCHANGED <<resp, auth>>
           ELSE /\ pc' = [pc EXCEPT ![r] = "Generating"]
                /\ auth' = [auth EXCEPT ![r] = "denied"]
                /\ UNCHANGED <<resp, snap>>
    /\ UNCHANGED <<limit, tokens, trial, req, raw, llm_calls, status>>

\* check_and_use_token: the SELECT of the token row and what follows it
\* without an await.  A refusal returns False at once (402); an accepted
\* use leaves the decremented object in the session, to be committed.
TokenSelect(r) ==
    /\ pc[r] = "AuthToken"
    /\ LET t == req[r].token
           found == t \in DOMAIN tokens
           obj == IF found THEN tokens[t] ELSE NoTokenRow
       IN  IF token_allows(t, found, obj)
           THEN /\ pc' = [pc EXCEPT ![r] = "TokenCommit"]
                /\ snap' = [snap EXCEPT ![r] =
                      [op |-> "update",
                       value |-> use_generation(obj).obj.generations_remaining]]
                /\ UNCHANGED <<resp, auth>>
           ELSE /\ Respond(r, "Rejected", 402, "token_invalid")
                /\ auth' = [auth EXCEPT ![r] = "denied"]
                /\ snap' = snap
    /\ UNCHANGED <<limit, tokens, trial, req, raw, llm_calls, status>>

\* await db.commit() of check_and_use_token: the session flushes
\* UPDATE ... SET generations_remaining = <the object's value> and commits;
\* the call returns True.
TokenCommit(r) ==
    /\ pc[r] = "TokenCommit"
    /\ tokens' = [tokens EXCEPT ![req[r].token].generations_remaining =
                                    snap[r].value]
    /\ pc' = [pc EXCEPT ![r] = "Generating"]
    /\ auth' = [auth EXCEPT ![r] = "ok"]
    /\ snap' = [snap EXCEPT ![r] = NoSnap]
    /\ UNCHANGED <<limit, trial, req, raw, resp, llm_calls, status>>

\* check_and_use_free_trial: the SELECT of the device's row and the branch
\* taken on it.  A refusal returns False at once (402); otherwise the new
\* or incremented object waits in the session for the commit.
TrialSelect(r) ==
    /\ pc[r] = "AuthTrial"
    /\ LET d == req[r].device_id
           found == d \in DOMAIN trial
           uses_count == IF found THEN trial[d] ELSE 0
           decision == IF Truthy(d) THEN free_trial_decision(found, uses_count)
                       ELSE "deny"
       IN  IF decision = "deny"
           THEN /\ Respond(r, "Rejected", 402, "trial_exhausted")
                /\ auth' = [auth EXCEPT ![r] = "denied"]
                /\ snap' = snap
           ELSE /\ pc' = [pc EXCEPT ![r] = "TrialCommit"]
                /\ snap' = [snap EXCEPT ![r] =
                      [op |-> decision,
                       value |-> IF decision = "insert" THEN 1
                                 ELSE uses_count + 1]]
                /\ UNCHANGED <<resp, auth>>
    /\ UNCHANGED <<limit, tokens, trial, req, raw, llm_calls, status>>

\* await db.commit() of check_and_use_free_trial.  An INSERT of a device_id
\* that has a row by now violates the unique constraint on device_id: the
\* commit raises, outside the handler's try block, and the request ends
\* with a 500.  An UPDATE writes the object's uses_count.
TrialCommit(r) ==
    /\ pc[r] = "TrialCommit"
    /\ LET d == req[r].device_id
       IN  IF snap[r].op = "insert" /\ d \in DOMAIN trial
           THEN /\ Respond(r, "Failed", 500, "integrity_error")
                /\ auth' = [auth EXCEPT ![r] = "error"]
                /\ trial' = trial
           ELSE /\ trial' = [x \in DOMAIN trial \cup {d} |->
                               IF x = d THEN snap[r].value ELSE trial[x]]
                /\ pc' = [pc EXCEPT ![r] = "Generating"]
                /\ auth' = [auth EXCEPT ![r] = "ok"]
                /\ resp' = resp
    /\ snap' = [snap EXCEPT ![r] = NoSnap]
    /\ UNCHANGED <<limit, tokens, req, raw, llm_calls, status>>

\* raw = await call_llm(prompt) answered with text, and the rest of the
\* handler, which has no further await: parse_llm_response(raw), the clamp
\* and the response.  Every exception but HTTPException is caught by
\* `except Exception` and answered with the generic 500: one raised by the
\* parser, by a subscript of a result that is no dict, by min() on a
\* hype_score that is no number, or by the response model on a downgraded
\* that is no str.
LLMReturnsText(r, text) ==
    /\ pc[r] = "Generating"
    /\ llm_calls' = [llm_calls EXCEPT ![r] = @ + 1]
    /\ raw' = [raw EXCEPT ![r] = text]
    /\ LET parsed == ParsedReply[text]
           data == parsed.data
       IN  IF /\ parsed.kind = "ok"
              /\ data.t = "dict"
              /\ dict_get(data, KeyHypeScore).t \in {"int", "bool"}
              /\ dict_get(data, KeyDowngraded).t = "str"
           THEN /\ pc' = [pc EXCEPT ![r] = "Completed"]
                /\ resp' = [resp EXCEPT ![r] =
                      [code |-> 200, detail |-> "ok",
                       downgraded |-> dict_get(data, KeyDowngraded).s,
                       hype_score |-> clamp_hype(dict_get(data, KeyHypeScore).n),
                       original |-> strip(req[r].title)]]
           ELSE Respond(r, "Failed", 500, "generic")
    /\ UNCHANGED <<limit, tokens, trial, req, snap, auth, status>>

\* The LLM answers request r with one of the replies of the handler runs.
LLMReturns(r) == \E text \in LLMReplies : LLMReturnsText(r, text)

\* An LLM call without a timeout: an unanswered call never fails.
LLMFails_NoTimeout(r) ==
    /\ FALSE
    /\ UNCHANGED vars

\* A failing LLM call that is tried again instead of ending the request.
LLMFails_Retry(r) ==
    /\ pc[r] = "Generating"
    /\ llm_calls' = [llm_calls EXCEPT ![r] = @ + 1]
    /\ UNCHANGED <<limit, tokens, trial, pc, req, snap, raw, resp, auth, status>>

\* A failing LLM call that gives the consumed unit back.
LLMFails_Refund(r) ==
    /\ pc[r] = "Generating"
    /\ llm_calls' = [llm_calls EXCEPT ![r] = @ + 1]
    /\ Respond(r, "Failed", 500, "llm_failed_with_cause")
    /\ IF auth_path(req[r]) = "token"
       THEN /\ tokens' = [tokens EXCEPT
                   ![req[r].token].generations_remaining = @ + 1]
            /\ trial' = trial
       ELSE /\ trial' = [trial EXCEPT ![req[r].device_id] = @ - 1]
            /\ tokens' = tokens
    /\ UNCHANGED <<limit, req, snap, raw, auth, status>>

\* raw = await call_llm(prompt), failing: call_llm turns every exception
\* (transport error, 30 s timeout, non-success status, malformed envelope)
\* into HTTPException(500, "AI 生成失败: <cause>"), which the handler
\* re-raises as it is.
LLMFails(r) ==
    /\ pc[r] = "Generating"
    /\ llm_calls' = [llm_calls EXCEPT ![r] = @ + 1]
    /\ Respond(r, "Failed", 500, "llm_failed_with_cause")
    /\ UNCHANGED <<limit, tokens, trial, req, snap, raw, auth, status>>

\* GET /api/trial-status/{device_id}
GetTrialStatus(d) ==
    /\ LET found == d \in DOMAIN trial
           answer == get_trial_status(found, IF found THEN trial[d] ELSE 0)
       IN  status' = [device_id |-> d,
                      has_free_trial |-> answer.has_free_trial,
                      uses_remaining |-> answer.uses_remaining]
    /\ UNCHANGED <<limit, tokens, trial, pc, req, snap, raw, resp, auth, llm_calls>>

\* ---------------------------------------------------------- specifications

\* The steps of the handler of request r after its arrival.
TokenStep(r) == TokenSelect(r) \/ TokenCommit(r)
TrialStep(r) == TrialSelect(r) \/ TrialCommit(r)
LLMStep(r) == LLMReturns(r) \/ LLMFails(r)

\* Requests with arbitrary bodies, handled concurrently: any handler may take
\* the next step.
Next ==
    \/ \E r \in 1..NumRequests : Receive(r, AllInputs)
    \/ \E r \in 1..NumRequests : TokenStep(r)
    \/ \E r \in 1..NumRequests : TrialStep(r)
    \/ \E r \in 1..NumRequests : LLMStep(r)

Spec == Init /\ [][Next]_vars

\* Requests that carry a title and one credential, with the scheduling the
\* claims of termination rely on: the event loop resumes every handler
\* whose store call can answer (SELECT, commit), and an LLM call that is not
\* answered ends at the 30 s timeout of httpx.AsyncClient(timeout=30.0).
\* Nothing forces the LLM to answer.
FairNext ==
    \E r \in 1..NumRequests :
        \/ Receive(r, TokenCallInputs \cup TrialCallInputs)
        \/ TokenStep(r)
        \/ TrialStep(r)
        \/ LLMStep(r)

FairSpec ==
    /\ Init
    /\ [][FairNext]_vars
    /\ \A r \in 1..NumRequests :
          /\ WF_vars(TokenStep(r))
          /\ WF_vars(TrialStep(r))
          /\ WF_vars(LLMFails(r))

\* Callers redeeming tokens, handled concurrently.
TokenNext ==
    \/ \E r \in 1..NumCallers : Receive(r, TokenCallInputs)
    \/ \E r \in 1..NumCallers : TokenStep(r)
    \/ \E r \in 1..NumCallers : LLMStep(r)

TokenSpec == Init /\ [][TokenNext]_vars

\* No other request is between its arrival and its response.
Alone(r) == \A q \in Requests \ {r} : pc[q] \in Terminal \cup {"new"}

\* Callers redeeming tokens one after the other: a sequence of calls.
TokenSeqNext ==
    \/ \E r \in 1..NumCallers : Alone(r) /\ Receive(r, TokenCallInputs)
    \/ \E r \in 1..NumCallers : Alone(r) /\ TokenStep(r)
    \/ \E r \in 1..NumCallers : Alone(r) /\ LLMStep(r)

TokenSeqSpec == Init /\ [][TokenSeqNext]_vars

\* One request on the token path whose LLM call is answered with any of the
\* texts given to the parser.
ParseNext ==
    \/ Receive(1, TokenCallInputs)
    \/ TokenStep(1)
    \/ \E text \in ParserTexts : LLMReturnsText(1, text)

ParseSpec == Init /\ [][ParseNext]_vars

\* Callers on the free trial, handled concurrently, and trial-status queries.
TrialNext ==
    \/ \E r \in 1..NumCallers : Receive(r, TrialCallInputs)
    \/ \E r \in 1..NumCallers : TrialStep(r)
    \/ \E r \in 1..NumCallers : LLMStep(r)
    \/ \E d \in DeviceIds : GetTrialStatus(d)

TrialSpec == Init /\ [][TrialNext]_vars

\* ------------------------------------------------------- claim vocabulary

\* The requests whose authorize-and-consume call on token t returned True.
TokenGranted(t) == {r \in Requests : req[r].token = t /\ auth[r] = "ok"}

\* The requests whose authorize-and-consume call on token t has returned.
TokenCalled(t) == {r \in Requests : req[r].token = t /\ auth[r] # "none"}

\* The requests that are calling, or have called, with token t.
TokenCallers(t) ==
    {r \in Requests : pc[r] # "new" /\ auth_path(req[r]) = "token"
                      /\ req[r].token = t /\ ~title_is_blank(req[r].title)}

\* The requests whose authorize-and-consume call on device d returned True.
TrialGranted(d) ==
    {r \in Requests : auth_path(req[r]) = "trial" /\ req[r].device_id = d
                      /\ auth[r] = "ok"}

\* A title that is empty or made of whitespace only.
BlankTitle(title) == \A i \in 1..Len(title) : title[i] \in Whitespace

\* Request r takes this step.
Acts(r) == pc'[r] # pc[r]

\* ------------------------------------------------------------------ C1
\* C1: when a token holds exactly one generation and two or more calls on it
\* have all returned, exactly one of them returned success.
C1_ExactlyOneSuccess ==
    \A t \in TokenStrings :
        (/\ tokens[t].generations_total = 1
         /\ Cardinality(TokenCallers(t)) >= 2
         /\ TokenCalled(t) = TokenCallers(t))
        => Cardinality(TokenGranted(t)) = 1

\* ------------------------------------------------------------------ C2
\* C2: with a free-trial limit L >= 1, the calls of one device that return
\* success never number more than L.
C2_GrantsWithinLimit ==
    \A d \in DeviceIds :
        limit >= 1 => Cardinality(TrialGranted(d)) <= limit

C4_BalanceNeverGrows ==
    [][\A t \in TokenStrings :
          /\ 0 <= tokens'[t].generations_remaining
          /\ tokens'[t].generations_remaining <= tokens'[t].generations_total
          /\ tokens'[t].generations_remaining <= tokens[t].generations_remaining
      ]_vars

C6_FirstUseLeavesLimitMinusOne ==
    [][\A r \in Requests :
          (/\ pc[r] = "TrialCommit"
           /\ Acts(r)
           /\ req[r].device_id \notin DOMAIN trial)
          => /\ req[r].device_id \in DOMAIN trial'
             /\ trial'[req[r].device_id] = 1
             /\ auth'[r] = "ok"
             /\ pc'[r] = "Generating"
             /\ get_trial_status(TRUE, trial'[req[r].device_id]).uses_remaining
                    = limit - 1
      ]_vars

\* C6 as amended: ... and a trial status read right after it reports
\* usesRemaining = max(0, limit - 1), which is limit - 1 for a limit >= 1.
C6_FirstUseLeavesFlooredLimitMinusOne ==
    [][\A r \in Requests :
          (/\ pc[r] = "TrialCommit"
           /\ Acts(r)
           /\ req[r].device_id \notin DOMAIN trial)
          => /\ req[r].device_id \in DOMAIN trial'
             /\ trial'[req[r].device_id] = 1
             /\ auth'[r] = "ok"
             /\ pc'[r] = "Generating"
             /\ get_trial_status(TRUE, trial'[req[r].device_id]).uses_remaining
                    = Max(0, limit - 1)
             /\ (limit >= 1 =>
                    get_trial_status(TRUE, trial'[req[r].device_id]).uses_remaining
                        = limit - 1)
      ]_vars

\* The first call of a device was granted under a limit of 2, and the status
\* served after it reports one use remaining.
C6_Witness ==
    \E r \in Requests :
        /\ auth[r] = "ok"
        /\ auth_path(req[r]) = "trial"
        /\ req[r].device_id \in DOMAIN trial
        /\ trial[req[r].device_id] = 1
        /\ status.device_id = req[r].device_id
        /\ status.uses_remaining = Max(0, limit - 1)
        /\ limit = 2

C8_ExactlyOnePath ==
    [][\A r \in Requests :
          /\ (Truthy(req'[r].token) /\ pc'[r] # "new") =>
                /\ pc'[r] \notin {"AuthTrial", "TrialCommit"}
                /\ Acts(r) => trial' = trial
                /\ auth'[r] = "denied" =>
                      (pc'[r] = "Rejected" /\ resp'[r].code = 402)
          /\ (~Truthy(req'[r].token) /\ pc'[r] # "new") =>
                /\ pc'[r] \notin {"AuthToken", "TokenCommit"}
                /\ Acts(r) => tokens' = tokens
      ]_vars

\* A request with an unknown token and a device was answered 402, and the
\* device has no trial row; a request with the device alone was granted.
C8_Witness ==
    /\ \E r \in Requests :
          /\ req[r].token = "bogus" /\ req[r].device_id = "dev1"
          /\ resp[r].code = 402
          /\ "dev1" \notin DOMAIN trial
    /\ \E q \in Requests :
          /\ req[q].token = "tokA" /\ req[q].device_id = "dev1"
          /\ auth[q] = "ok"

\* ------------------------------------------------------------------ C9
\* C9: a request that was authorized and then fails in the LLM call or in
\* the parsing ends with a 500, the failing step changes no ledger row, and
\* a request that has been answered takes no further step.
C9_NoRefundOnFailure ==
    [][\A r \in Requests :
          /\ (pc[r] = "Generating" /\ pc'[r] = "Failed") =>
                /\ auth[r] = "ok"
                /\ resp'[r].code = 500
                /\ tokens' = tokens
                /\ trial' = trial
          /\ pc[r] \in Terminal => (pc'[r] = pc[r] /\ resp'[r] = resp[r])
      ]_vars

\* A request consumed the token's only generation, failed in the parsing,
\* and the generation stays consumed.
C9_Witness ==
    \E r \in Requests :
        /\ pc[r] = "Failed" /\ resp[r].detail = "generic"
        /\ auth[r] = "ok"
        /\ req[r].token = "tokA"
        /\ tokens["tokA"].generations_total = 1
        /\ tokens["tokA"].generations_remaining = 0

\* ----------------------------------------------------------------- C10
\* C10: a request with an empty or all-whitespace title is answered 400 by
\* the step that receives it, whatever its token and device identifier are;
\* it never reaches authorization and that step changes no ledger row.
C10_BlankTitleRejectedFirst ==
    [][\A r \in Requests :
          (BlankTitle(req'[r].title) /\ pc'[r] # "new")
          => /\ pc'[r] = "Rejected"
             /\ resp'[r].code = 400
             /\ auth'[r] = "none"
             /\ llm_calls'[r] = 0
             /\ Acts(r) => (tokens' = tokens /\ trial' = trial)
      ]_vars

\* A whitespace title came with a stored token and a device: answered 400,
\* the token keeps its generations and the device has no row.
C10_Witness ==
    \E r \in Requests :
        /\ req[r].title = <<" ", "\t">>
        /\ req[r].token = "tokA" /\ req[r].device_id = "dev1"
        /\ resp[r].code = 400
        /\ tokens["tokA"].generations_remaining = tokens["tokA"].generations_total
        /\ "dev1" \notin DOMAIN trial

C13_StatusReadOnlyAndConsistent ==
    [][status' # status
       => /\ UNCHANGED <<limit, tokens, trial, pc, req, snap, raw, resp,
                         auth, llm_calls>>
          /\ LET d == status'.device_id
                 uses == IF d \in DOMAIN trial THEN trial[d] ELSE 0
                 remaining == IF limit - uses > 0 THEN limit - uses ELSE 0
             IN  /\ status'.uses_remaining = remaining
                 /\ status'.has_free_trial = (remaining > 0)
      ]_vars

\* ----------------------------------------------------------------- C15
\* C15: a request moves forward only: received, authorizing, generating and
\* parsing, completed.  Authorization ends only in generating or in a
\* rejection with 400 or 402; Failed (500) is entered only from generating
\* or parsing, never from a received or authorizing request.
Authorizing == {"AuthToken", "TokenCommit", "AuthTrial", "TrialCommit"}

C15_FailedOnlyAfterAuthorization ==
    [][\A r \in Requests :
          Acts(r) =>
             /\ pc[r] = "new" => pc'[r] \in Authorizing \cup {"Rejected"}
             /\ pc[r] \in Authorizing
                => /\ pc'[r] \in Authorizing \cup {"Generating", "Rejected"}
                   /\ pc'[r] = "Rejected" => resp'[r].code \in {400, 402}
             /\ pc[r] = "Generating" => pc'[r] \in {"Completed", "Failed"}
             /\ pc[r] \notin Terminal
             /\ pc'[r] = "Failed"
                => pc[r] = "Generating" /\ resp'[r].code = 500
      ]_vars

\* ----------------------------------------------------------------- C16
\* C16: a request makes at most one authorize-and-consume attempt and at
\* most one LLM call, and consumes at most one unit: it passes each stage
\* once and never goes back, its authorization result is set once, the
\* ledger is written only by the commit of one request's single attempt,
\* and that commit writes one row, one unit away from the value read.
Stage(p) ==
    CASE p = "new" -> 0
      [] p \in {"AuthToken", "AuthTrial"} -> 1
      [] p \in {"TokenCommit", "TrialCommit"} -> 2
      [] p = "Generating" -> 3
      [] p \in Terminal -> 4

C16_OneAttemptOneCallOneUnit ==
    [][/\ \A r \in Requests :
             /\ llm_calls'[r] <= 1
             /\ Acts(r) => Stage(pc'[r]) > Stage(pc[r])
             /\ auth[r] # "none" => auth'[r] = auth[r]
             /\ llm_calls'[r] # llm_calls[r]
                => pc[r] = "Generating" /\ pc'[r] \in Terminal
             /\ (Acts(r) /\ pc'[r] = "TokenCommit")
                => snap'[r].value
                      = tokens[req[r].token].generations_remaining - 1
             /\ (Acts(r) /\ pc'[r] = "TrialCommit")
                => snap'[r].value
                      = IF req[r].device_id \in DOMAIN trial
                        THEN trial[req[r].device_id] + 1 ELSE 1
       /\ (tokens' # tokens \/ trial' # trial)
          => \E r \in Requests :
                /\ Stage(pc[r]) = 2 /\ Stage(pc'[r]) = 3
                /\ \A q \in Requests \ {r} : pc'[q] = pc[q]
                /\ IF pc[r] = "TokenCommit"
                   THEN /\ trial' = trial
                        /\ tokens' = [tokens EXCEPT
                              ![req[r].token].generations_remaining =
                                  snap[r].value]
                   ELSE /\ tokens' = tokens
                        /\ DOMAIN trial' = DOMAIN trial \cup {req[r].device_id}
                        /\ trial'[req[r].device_id] = snap[r].value
      ]_vars

\* Both requests finished, one after a failed LLM call and one with a
\* result; each made one LLM call and the token lost one unit for each.
C16_Witness ==
    /\ pc[1] = "Failed" /\ pc[2] = "Completed"
    /\ llm_calls[1] = 1 /\ llm_calls[2] = 1
    /\ auth[1] = "ok" /\ auth[2] = "ok"
    /\ req[1].token = "tokA" /\ req[2].token = "tokA"
    /\ tokens["tokA"].generations_total = 2
    /\ tokens["tokA"].generations_remaining = 0

\* ----------------------------------------------------------------- C18
\* C18: every request that fails after authorization, in the LLM call or in
\* the parsing of its answer, is answered 500 with the one generic message,
\* whatever the cause; the text of the cause is not in the response.
C18_FailureMessageGeneric ==
    \A r \in Requests :
        (pc[r] = "Failed" /\ auth[r] = "ok" /\ llm_calls[r] = 1)
        => resp[r].code = 500 /\ resp[r].detail = "generic"

\* ----------------------------------------------------------------- C20
\* C20: under every interleaving the ledger agrees with the calls that
\* returned success: a device's uses-count is the number of its successful
\* calls, and what a token has lost of its initial generations is the
\* number of its successful calls.
C20_LedgerConservation ==
    /\ \A d \in DeviceIds :
          (IF d \in DOMAIN trial THEN trial[d] ELSE 0)
             = Cardinality(TrialGranted(d))
    /\ \A t \in TokenStrings :
          tokens[t].generations_total - tokens[t].generations_remaining
             = Cardinality(TokenGranted(t))

\* ----------------------------------------------------------------- C17
\* C17: every request that has been received eventually reaches a terminal
\* state (Completed, Rejected or Failed) and then stays in it with the
\* response it got, given that the store answers and that the LLM call
\* either answers or runs into its timeout; a request whose LLM call gets no
\* answer ends in Failed instead of waiting in Generating forever.
C17_EveryRequestTerminates ==
    /\ \A r \in Requests : (pc[r] # "new") ~> (pc[r] \in Terminal)
    /\ [][\A r \in Requests :
             pc[r] \in Terminal => pc'[r] = pc[r] /\ resp'[r] = resp[r]]_vars

\* One request ended in Failed at the timeout of its LLM call while the
\* other ended Completed.
C17_Witness ==
    \E r, q \in Requests :
        /\ pc[r] = "Failed" /\ resp[r].detail = "llm_failed_with_cause"
        /\ llm_calls[r] = 1
        /\ pc[q] = "Completed"

\* ----------------------------------------------------------------- C12
\* C12: the hype score of every Completed request is an integer from 1 to
\* 10, namely the score the parser returned for the LLM's text clamped to
\* that range: 1 for a score below 1, 10 for a score above 10, the score
\* itself otherwise.
C12_HypeScoreClamped ==
    \A r \in Requests :
        pc[r] = "Completed"
        => LET score == dict_get(ParsedReply[raw[r]].data, KeyHypeScore).n
               hype == resp[r].hype_score
           IN  /\ hype \in 1..10
               /\ score < 1 => hype = 1
               /\ score > 10 => hype = 10
               /\ score \in 1..10 => hype = score

\* A reply with hype_score 15 was answered with 10.
C12_Witness ==
    \E r \in Requests :
        /\ pc[r] = "Completed"
        /\ raw[r] = json_dumps([downgraded |-> <<"a">>, hype_score |-> 15])
        /\ resp[r].hype_score = 10

\* ----------------------------------------------------------------- C14
\* C14: for every pair of a downgraded string and an integer hype score,
\* the parser returns that pair for the JSON encoding of the pair, and for
\* the encoding in a fenced code block, tagged json or untagged, it returns
\* what it returns for the bare encoding.
C14_ParserRoundTrip ==
    \A r \in Requests : \A pair \in Pairs :
        (/\ llm_calls[r] = 1
         /\ raw[r] \in {Encoding[pair], Fenced(Encoding[pair], JsonTag),
                        Fenced(Encoding[pair], <<>>)})
        => LET parsed == ParsedReply[raw[r]]
           IN  /\ parsed.kind = "ok"
               /\ parsed.data.t = "dict"
               /\ dict_get(parsed.data, KeyDowngraded) = JStr(pair.downgraded)
               /\ dict_get(parsed.data, KeyHypeScore) = JInt(pair.hype_score)
               /\ parsed = ParsedReply[Encoding[pair]]
               /\ pc[r] = "Completed"
               /\ resp[r].downgraded = pair.downgraded

\* The pair of the string quote-backslash and the score -3, encoded and put
\* in a block tagged json, came back from the parser.
C14_Witness ==
    \E r \in Requests :
        /\ raw[r] = Fenced(json_dumps([downgraded |-> <<Quote, Backslash>>,
                                        hype_score |-> 0 - 3]), JsonTag)
        /\ pc[r] = "Completed"
        /\ resp[r].downgraded = <<Quote, Backslash>>
        /\ resp[r].hype_score = 1

\* ----------------------------------------------------------------- C19
\* C19: for every text the parser has one of two outcomes: it returns a
\* result that holds both downgraded and hype_score, the strict JSON parse
\* going before the pattern search, or it fails with its parse error
\* (ValueError); so also for valid JSON that is no object, or an object
\* without one of the keys.
C19_ParserTwoOutcomes ==
    \A r \in Requests :
        llm_calls[r] = 1
        => LET parsed == ParsedReply[raw[r]]
               body == strip(strip_closing_fence(strip_opening_fence(strip(raw[r]))))
               loaded == json_loads(body)
           IN  /\ parsed.kind \in {"ok", "ValueError"}
               /\ parsed.kind = "ok"
                  => /\ parsed.data.t = "dict"
                     /\ contains(parsed.data, KeyDowngraded)
                     /\ contains(parsed.data, KeyHypeScore)
               /\ (/\ loaded.ok /\ loaded.val.t = "dict"
                   /\ contains(loaded.val, KeyDowngraded)
                   /\ contains(loaded.val, KeyHypeScore))
                  => parsed = [kind |-> "ok", data |-> loaded.val]

\* ----------------------------------------------------------------- C21
\* C21: the trial status and the consume agree.  When a call for a device
\* reads the device's row while the status last served is the one of that
\* device on the ledger as it is (nothing was committed since), the status
\* says hasFreeTrial with usesRemaining > 0 exactly when the call is
\* accepted; so for every limit >= 0 and for a device without a record.
StatusIsCurrent(d) ==
    LET found == d \in DOMAIN trial
        answer == get_trial_status(found, IF found THEN trial[d] ELSE 0)
    IN  /\ status.device_id = d
        /\ status.has_free_trial = answer.has_free_trial
        /\ status.uses_remaining = answer.uses_remaining

C21_StatusAgreesWithConsume ==
    [][\A r \in Requests :
          (/\ pc[r] = "AuthTrial"
           /\ Acts(r)
           /\ limit >= 0
           /\ StatusIsCurrent(req[r].device_id))
          => ((status.has_free_trial /\ status.uses_remaining > 0)
                 <=> (pc'[r] = "TrialCommit" /\ snap'[r].op # "none"))
      ]_vars

====
